---- MODULE Spec2Model ----
(***************************************************************************)
(* viterbi_segment(text, P) of text.ipynb: the dynamic-programming fill of *)
(* best[] and words[] followed by the backtracking pass that recovers the  *)
(* sequence of best words.  Probabilities are exact rationals <<num, den>>.*)
(* Python indices are kept: tables are functions on 0..n and text[j:i] is  *)
(* Slice(text, j, i).                                                      *)
(***************************************************************************)
EXTENDS Integers, Sequences, FiniteSets

\* ---- bounds of the checked instances ----
MaxLen == 3
MaxDen == 2
MaxDenZ == 1

Alphabet == {"a", "b"}

\* ---- exact probabilities ----
Zero == <<0, 1>>
One == <<1, 1>>
Mul(x, y) == <<x[1] * y[1], x[2] * y[2]>>
Geq(x, y) == x[1] * y[2] >= y[1] * x[2]
Gt(x, y) == x[1] * y[2] > y[1] * x[2]
RatEq(x, y) == x[1] * y[2] = y[1] * x[2]

\* the probabilities a model may give: 1, 1/2, ..., 1/MaxDen, all in (0, 1]
Probs == {<<1, d>> : d \in 1..MaxDen}
\* values of a model that may break the fallback policy: 0 is allowed
ZeroProbs == {Zero} \cup {<<1, d>> : d \in 1..MaxDenZ}

\* ---- strings ----
Texts == UNION {[1..k -> Alphabet] : k \in 0..MaxLen}
\* Python text[a:b] for 0 <= a <= b <= len(text)
Slice(s, a, b) == SubSeq(s, a + 1, b)
Substrings(s) == {Slice(s, a, b) : a \in 0..(Len(s) - 1), b \in 1..Len(s)} \ {<<>>}

VARIABLES text, P, words, best, i, j, sequence, pc, ret, queries, rd

vars == <<text, P, words, best, i, j, sequence, pc, ret, queries, rd>>

n == Len(text)

\* words = [''] + list(text)
InitWordsEmpty(t) == [k \in 0..Len(t) |-> <<>>]
InitWords(t) == [k \in 0..Len(t) |-> IF k = 0 THEN <<>> ELSE <<t[k]>>]

\* best = [1.0] + [0.0] * n
InitBestZero(t) == [k \in 0..Len(t) |-> Zero]
InitBest(t) == [k \in 0..Len(t) |-> IF k = 0 THEN One ELSE Zero]

\* the index of best[] read for the candidate: i - len(w)
PrevLast(ii, w) == ii - 1
Prev(ii, w) == ii - Len(w)

\* newbest = P[w] * best[i - len(w)]
NewBest(ii, w) == Mul(P[w], best[Prev(ii, w)])

\* if newbest >= best[i]
UpdateStrict(nb, cur) == Gt(nb, cur)
UpdateLeq(nb, cur) == Geq(cur, nb)
Update(nb, cur) == Geq(nb, cur)

\* best[i] = newbest ; words[i] = w
StoreAtStart(tab, ii, jj, val) == [tab EXCEPT ![jj] = val]
Store(tab, ii, jj, val) == [tab EXCEPT ![ii] = val]

\* i = i - len(words[i])
BackSkip(ii, wd) == ii - Len(wd) - 1
BackOne(ii, wd) == ii - 1
Back(ii, wd) == ii - Len(wd)

\* sequence[0:0] = [words[i]]
Prepend(seq, wd) == <<wd>> \o seq

InitCommon ==
    /\ words = <<>>
    /\ best = <<>>
    /\ i = 0
    /\ j = 0
    /\ sequence = <<>>
    /\ pc = "entry"
    /\ ret = <<>>
    /\ queries = 0
    /\ rd = -1

\* the call's arguments: a text and a model total on its nonempty substrings
Init ==
    /\ text \in Texts
    /\ P \in [Substrings(text) -> Probs]
    /\ InitCommon

InitZero ==
    /\ text \in Texts
    /\ P \in [Substrings(text) -> ZeroProbs]
    /\ InitCommon

\* n = len(text); words = ...; best = ...; the outer loop starts at i = 0
Setup ==
    /\ pc = "entry"
    /\ words' = InitWords(text)
    /\ best' = InitBest(text)
    /\ i' = 0
    /\ j' = 0
    /\ pc' = "fill"
    /\ UNCHANGED <<text, P, sequence, ret, queries, rd>>

\* one iteration of  for j in range(0, i)
InnerStep ==
    /\ pc = "fill"
    /\ j < i
    /\ LET w == Slice(text, j, i)
           newbest == NewBest(i, w)
       IN /\ rd' = Prev(i, w)
          /\ queries' = queries + 1
          /\ IF Update(newbest, best[i])
                THEN /\ best' = Store(best, i, j, newbest)
                     /\ words' = Store(words, i, j, w)
                ELSE UNCHANGED <<best, words>>
    /\ j' = j + 1
    /\ UNCHANGED <<text, P, i, sequence, pc, ret>>

\* the inner loop is exhausted: next i of  for i in range(n+1)
OuterStep ==
    /\ pc = "fill"
    /\ j >= i
    /\ i < n
    /\ i' = i + 1
    /\ j' = 0
    /\ UNCHANGED <<text, P, words, best, sequence, pc, ret, queries, rd>>

\* both loops are exhausted: sequence = [] ; i = len(words) - 1
FillDone ==
    /\ pc = "fill"
    /\ j >= i
    /\ i >= n
    /\ sequence' = <<>>
    /\ i' = Cardinality(DOMAIN words) - 1
    /\ pc' = "recover"
    /\ UNCHANGED <<text, P, words, best, j, ret, queries, rd>>

\* one iteration of  while i > 0
RecoverStep ==
    /\ pc = "recover"
    /\ i > 0
    /\ sequence' = Prepend(sequence, words[i])
    /\ i' = Back(i, words[i])
    /\ UNCHANGED <<text, P, words, best, j, pc, ret, queries, rd>>

\* return sequence, best[-1]
Return ==
    /\ pc = "recover"
    /\ ~(i > 0)
    /\ ret' = <<sequence, best[Cardinality(DOMAIN best) - 1]>>
    /\ pc' = "done"
    /\ UNCHANGED <<text, P, words, best, i, j, sequence, queries, rd>>

Next ==
    \/ Setup
    \/ InnerStep
    \/ OuterStep
    \/ FillDone
    \/ RecoverStep
    \/ Return

Spec == Init /\ [][Next]_vars

\* the interpreter runs the call to its end: no step is postponed forever
FairSpec == Init /\ [][Next]_vars /\ WF_vars(Next)

SpecZero == InitZero /\ [][Next]_vars

\* ---------------------------------------------------------------------
\* Vocabulary of the properties
\* ---------------------------------------------------------------------

\* the inner loop for end position k has run to its end
Filled(k) ==
    \/ pc \in {"recover", "done"}
    \/ pc = "fill" /\ (k < i \/ (k = i /\ j >= i))

\* the boundary of B just left of b
PredCut(B, b) == CHOOSE c \in B : c < b /\ \A d \in B : d < b => d <= c

RECURSIVE ProdCuts(_, _)
ProdCuts(B, S) ==
    IF S = {} THEN One
    ELSE LET b == CHOOSE x \in S : TRUE
         IN Mul(P[Slice(text, PredCut(B, b), b)], ProdCuts(B, S \ {b}))

\* joint probability of the segmentation of text[0:k] cut at the positions C
SegProb(C, k) == ProdCuts(C \cup {0, k}, (C \cup {k}) \ {0})

Cuts(k) == SUBSET (1..(k - 1))

\* x is the maximum joint probability over all segmentations of text[0:k]
IsMaxSeg(x, k) ==
    /\ \E C \in Cuts(k) : RatEq(x, SegProb(C, k))
    /\ \A C \in Cuts(k) : Geq(x, SegProb(C, k))

RECURSIVE Concat(_)
Concat(ws) == IF ws = <<>> THEN <<>> ELSE Head(ws) \o Concat(Tail(ws))

RECURSIVE ProdWords(_)
ProdWords(ws) == IF ws = <<>> THEN One ELSE Mul(P[Head(ws)], ProdWords(Tail(ws)))

\* candidate probability of the final word text[jj:k], once best[jj] is final
Cand(jj, k) == Mul(P[Slice(text, jj, k)], best[jj])

\* start positions whose candidate is the maximum for end position k
MaxStarts(k) == {jj \in 0..(k - 1) : \A q \in 0..(k - 1) : Geq(Cand(jj, k), Cand(q, k))}

Largest(S) == CHOOSE x \in S : \A y \in S : y <= x
Smallest(S) == CHOOSE x \in S : \A y \in S : x <= y

AllZero == \A s \in DOMAIN P : P[s] = Zero

Singles == [k \in 1..n |-> Slice(text, k - 1, k)]

\* ---------------------------------------------------------------------
\* C1  Optimality: when the DP fill has ended, best[k] is the maximum over
\* all segmentations of text[0:k] of the product of the pieces'
\* probabilities, for every k in 0..n, and the returned probability is that
\* maximum for the whole text.
\* ---------------------------------------------------------------------
C1_Optimality ==
    /\ pc \in {"recover", "done"} => \A k \in 0..n : IsMaxSeg(best[k], k)
    /\ pc = "done" => IsMaxSeg(ret[2], n)

\* a three-character text whose best segmentation has two words and beats
\* both the whole text as one word and the single characters
C1_Witness ==
    /\ pc = "done"
    /\ n = 3
    /\ Len(ret[1]) = 2
    /\ Gt(ret[2], P[text])
    /\ Gt(ret[2], SegProb(1..(n - 1), n))

\* ---------------------------------------------------------------------
\* C2  Reconstruction: the returned words, concatenated in order, are
\* exactly text, and every returned word is nonempty.
\* ---------------------------------------------------------------------
C2_Reconstruction ==
    pc = "done" =>
        /\ Concat(ret[1]) = text
        /\ \A k \in 1..Len(ret[1]) : Len(ret[1][k]) >= 1

C2_Witness ==
    /\ pc = "done"
    /\ n = 3
    /\ \E k \in 1..Len(ret[1]) : Len(ret[1][k]) = 2
    /\ Concat(ret[1]) = text

\* ---------------------------------------------------------------------
\* C3  Result consistency: the returned probability is the product of the
\* model probabilities of exactly the returned words (1 for no words).
\* ---------------------------------------------------------------------
C3_Consistency ==
    pc = "done" => RatEq(ret[2], ProdWords(ret[1]))

\* several final words tie for the maximum at position n
C3_Witness ==
    /\ pc = "done"
    /\ n >= 2
    /\ Cardinality(MaxStarts(n)) >= 2
    /\ Len(ret[1]) >= 2
    /\ RatEq(ret[2], ProdWords(ret[1]))

C5_Bounds ==
    /\ (n > 0 /\ pc \in {"recover", "done"}) =>
           \A k \in 0..n : Gt(best[k], Zero) /\ Geq(One, best[k])
    /\ (n > 0 /\ pc = "done") => Gt(ret[2], Zero) /\ Geq(One, ret[2])

\* every substring has the smallest probability the model gives
C5_Witness ==
    /\ pc = "done"
    /\ n >= 2
    /\ \A s \in DOMAIN P : P[s] = <<1, MaxDen>>
    /\ Gt(ret[2], Zero)
    /\ Gt(One, ret[2])

\* ---------------------------------------------------------------------
\* C6  Empty input: for a text of length 0 the call returns the empty
\* sequence and probability 1, never queries the model, and every step up
\* to the return can be taken.
\* ---------------------------------------------------------------------
C6_Empty ==
    n = 0 =>
        /\ queries = 0
        /\ pc # "done" => ENABLED Next
        /\ pc = "done" => ret[1] = <<>> /\ RatEq(ret[2], One)

C6_Witness == n = 0 /\ pc = "done" /\ ret[1] = <<>>

\* ---------------------------------------------------------------------
\* C7  Totality: the call returns; backtracking starts at i = n, each
\* iteration lowers i by len(words[i]) >= 1 without making it negative, and
\* the loop ends with i = 0.
\* ---------------------------------------------------------------------
C7_Totality ==
    /\ [][(pc = "fill" /\ pc' = "recover") => i' = n]_vars
    /\ [][(pc = "recover" /\ pc' = "recover") =>
            /\ Len(words[i]) >= 1
            /\ i' = i - Len(words[i])
            /\ i' < i
            /\ i' >= 0]_vars
    /\ [](pc = "done" => i = 0)
    /\ <>(pc = "done")

C7_Witness ==
    /\ pc = "done"
    /\ i = 0
    /\ n = 3
    /\ Len(sequence) = 2
    /\ Len(sequence[1]) = 2

C9_ZeroFails ==
    /\ (pc = "fill" /\ i = 0) => \A k \in 0..n : words[k] = <<>>
    /\ (AllZero /\ n > 0) => pc # "done"

\* C9 as amended: words[k] starts as the single character text[k-1] for
\* k > 0 (only words[0] is empty), and with an all-zero model and a
\* nonempty text the call returns the single characters of text with
\* probability 0.
C9_ZeroReturnsSingles ==
    /\ (pc = "fill" /\ i = 0) =>
           /\ words[0] = <<>>
           /\ \A k \in 1..n : words[k] = Slice(text, k - 1, k)
    /\ (AllZero /\ n > 0 /\ pc \in {"recover", "done"}) =>
           \A k \in 1..n : RatEq(best[k], Zero) /\ Len(words[k]) = 1
    /\ (AllZero /\ n > 0 /\ pc = "done") => ret[1] = Singles /\ RatEq(ret[2], Zero)

C9_Witness ==
    /\ pc = "done"
    /\ n >= 2
    /\ AllZero
    /\ Len(ret[1]) = n
    /\ ret[2][1] = 0

====
